---- MODULE Spec2Model ----
(***************************************************************************)
(* Apps.ClamAV: the clamd protocol client (frame encoder, scan session,    *)
(* result parser) and the upload hook that calls it.                       *)
(*                                                                         *)
(* The repository holds several near-duplicate variants of the same code.  *)
(* The scan session is modelled for three of them:                         *)
(*   "svc"   ClamAVService.scanStream    (src/src/clam/ClamAVService.ts)   *)
(*   "p3"    createScanner().scanStream  (src/unnamed/part_003)            *)
(*   "clamd" createScanner().scanStream  (src/clamd.ts)                    *)
(* A text is a sequence of characters (one-character strings, NUL for the  *)
(* character U+0000 and REPL for U+FFFD); a buffer is a sequence of bytes. *)
(***************************************************************************)
EXTENDS Integers, Sequences, FiniteSets, TLC

----------------------------------------------------------------------------
(* Characters, bytes and the utf8 conversions of Buffer                    *)

NUL == "NUL"
REPL == "REPL"

\* The ASCII code of every character the model uses.
ByteOf ==
  ("NUL" :> 0) @@ ("\n" :> 10) @@ ("\r" :> 13) @@ (" " :> 32) @@ (":" :> 58) @@
  ("A" :> 65) @@ ("C" :> 67) @@ ("D" :> 68) @@ ("E" :> 69) @@ ("F" :> 70) @@
  ("G" :> 71) @@ ("I" :> 73) @@ ("K" :> 75) @@ ("M" :> 77) @@ ("N" :> 78) @@
  ("O" :> 79) @@ ("P" :> 80) @@ ("R" :> 82) @@ ("S" :> 83) @@ ("T" :> 84) @@
  ("U" :> 85) @@ ("V" :> 86) @@ ("s" :> 115) @@ ("x" :> 120) @@ ("y" :> 121) @@
  ("z" :> 122)

\* Buffer.from(text) for the ASCII texts the code writes.
BufferFrom(text) == [i \in 1..Len(text) |-> ByteOf[text[i]]]

\* One byte of Buffer.toString('utf8'): an ASCII byte is its character, a
\* byte that starts no valid UTF-8 sequence decodes to U+FFFD.
CharOf(b) ==
  IF b >= 128 THEN REPL
  ELSE IF \E c \in DOMAIN ByteOf : ByteOf[c] = b
       THEN CHOOSE c \in DOMAIN ByteOf : ByteOf[c] = b
       ELSE "?"

\* Buffer.toString('utf8') on buffers of ASCII bytes and invalid lead bytes.
BufToString(buf) == [i \in 1..Len(buf) |-> CharOf(buf[i])]

RECURSIVE Concat(_)
\* Buffer.concat(list)
Concat(list) ==
  IF list = << >> THEN << >> ELSE Head(list) \o Concat(Tail(list))

----------------------------------------------------------------------------
(* Text helpers: the pieces of the regular expressions of _processResult   *)

\* \s of a JavaScript regular expression, and what String.trim strips.
WhiteSpace == {" ", "\n", "\r", "\t"}
\* What . does not match, and where ^ and $ match under the m flag.
LineTerminators == {"\n", "\r"}
\* (\u0000|[\r\n])
Separators == {NUL, "\n", "\r"}

\* word occurs in text starting at index i
IsAt(text, i, word) ==
  /\ i >= 1
  /\ i + Len(word) - 1 <= Len(text)
  /\ \A k \in 1..Len(word) : text[i + k - 1] = word[k]

\* String.prototype.includes
Includes(text, word) == \E i \in 1..(Len(text) + 1) : IsAt(text, i, word)

\* String.prototype.trim
Trim(text) ==
  LET keep == {i \in 1..Len(text) : text[i] \notin WhiteSpace}
  IN  IF keep = {} THEN << >>
      ELSE LET lo == CHOOSE i \in keep : \A j \in keep : i <= j
               hi == CHOOSE i \in keep : \A j \in keep : i >= j
           IN  SubSeq(text, lo, hi)

wOK == <<"O", "K">>
wFOUND == <<"F", "O", "U", "N", "D">>
wERROR == <<"E", "R", "R", "O", "R">>
wTIMEDOUT ==
  <<"C","O","M","M","A","N","D"," ","R","E","A","D"," ",
    "T","I","M","E","D"," ","O","U","T">>

\* A test for the token OK anywhere in the text: what MatchesOK must
\* differ from.
MatchesOK_anywhere(text) == Includes(text, <<"O", "K">>)

\* /:\s+OK(\u0000|[\r\n])?$/.test(text)
MatchesOK(text) ==
  \E c \in 1..Len(text), e \in 1..Len(text) :
    /\ text[c] = ":"
    /\ e >= c + 2
    /\ \A k \in (c + 1)..(e - 1) : text[k] \in WhiteSpace
    /\ IsAt(text, e, wOK)
    /\ \/ e + 1 = Len(text)
       \/ e + 2 = Len(text) /\ text[Len(text)] \in Separators

\* /:\s+(.+)FOUND(\u0000|[\r\n])?/gm.test(text)
MatchesFOUND(text) ==
  \E c \in 1..Len(text), s \in 1..Len(text), f \in 1..Len(text) :
    /\ text[c] = ":"
    /\ c < s /\ s + 1 < f
    /\ \A k \in (c + 1)..s : text[k] \in WhiteSpace
    /\ \A k \in (s + 1)..(f - 1) : text[k] \notin LineTerminators
    /\ IsAt(text, f, wFOUND)

\* /:\s+(.+)FOUND$/gm.test(v)
SegmentMatchesFOUND(v) ==
  \E c \in 1..Len(v), s \in 1..Len(v), f \in 1..Len(v) :
    /\ v[c] = ":"
    /\ c < s /\ s + 1 < f
    /\ \A k \in (c + 1)..s : v[k] \in WhiteSpace
    /\ \A k \in (s + 1)..(f - 1) : v[k] \notin LineTerminators
    /\ IsAt(v, f, wFOUND)
    /\ \/ f + 4 = Len(v)
       \/ f + 4 < Len(v) /\ v[f + 5] \in LineTerminators

\* /^(.+)ERROR(\u0000|[\r\n])?/gm.test(text)
MatchesERROR(text) ==
  \E e \in 2..Len(text) :
    /\ IsAt(text, e, wERROR)
    /\ text[e - 1] \notin LineTerminators

RECURSIVE SplitFrom(_, _, _)
\* The segments of text from index i on, cur being the segment under way.
SplitFrom(text, i, cur) ==
  IF i > Len(text) THEN <<cur>>
  ELSE IF text[i] \in Separators
       THEN <<cur>> \o SplitFrom(text, i + 1, << >>)
       ELSE SplitFrom(text, i + 1, Append(cur, text[i]))

\* text.split(/(\u0000|[\r\n])/) without the separator elements the
\* capturing group adds: a one-character element never passes the FOUND
\* test of the map step, so it is mapped to null and filtered out.
SplitSegments(text) == SplitFrom(text, 1, << >>)

MaxOf(S) == CHOOSE x \in S : \A y \in S : y <= x

\* v.replace(/(.+:\s+)(.+)FOUND/gm, "$2") for a segment v (no line
\* terminator in it): the greedy first group ends at the last colon that
\* has a character before it, white space after it, and a later FOUND.
ReplaceFOUND(v) ==
  LET colons == {c \in 2..Len(v) :
                   /\ v[c] = ":"
                   /\ c + 1 <= Len(v) /\ v[c + 1] \in WhiteSpace
                   /\ \E f \in (c + 3)..Len(v) : IsAt(v, f, wFOUND)}
  IN  IF colons = {} THEN v
      ELSE LET c == MaxOf(colons)
               f == MaxOf({g \in (c + 3)..Len(v) : IsAt(v, g, wFOUND)})
               s == MaxOf({t \in (c + 1)..(f - 2) :
                             \A k \in (c + 1)..t : v[k] \in WhiteSpace})
           IN  SubSeq(v, s + 1, f - 1) \o SubSeq(v, f + 5, Len(v))

\* The map step of the virus list: the name of a segment, << >> for null.
VirusNameOf(v) ==
  IF SegmentMatchesFOUND(v) THEN Trim(ReplaceFOUND(v)) ELSE << >>

\* A list that keeps every name, repeated or empty: what Dedupe must
\* differ from.
Dedupe_keepsAll(list, seen) == list

RECURSIVE Dedupe(_, _)
\* Array.from(new Set(list.filter(v => !!v))): first occurrences, in order.
Dedupe(list, seen) ==
  IF list = << >> THEN << >>
  ELSE IF Head(list) = << >> \/ Head(list) \in seen
       THEN Dedupe(Tail(list), seen)
       ELSE <<Head(list)>> \o Dedupe(Tail(list), seen \cup {Head(list)})

Viruses(result) ==
  LET segs == SplitSegments(result)
  IN  Dedupe([i \in 1..Len(segs) |-> VirusNameOf(segs[i])], {})

RECURSIVE DropIndexes(_, _, _)
DropIndexes(text, i, drop) ==
  IF i > Len(text) THEN << >>
  ELSE (IF i \in drop THEN << >> ELSE <<text[i]>>)
       \o DropIndexes(text, i + 1, drop)

\* result.replace(/^(.+)ERROR/gm, "$1").trim(): on every line the last
\* ERROR that has a character of the line before it is removed.
ErrorDetail(result) ==
  LET starts == {e \in 2..Len(result) :
                   /\ IsAt(result, e, wERROR)
                   /\ result[e - 1] \notin LineTerminators
                   /\ ~ \E e2 \in (e + 1)..Len(result) :
                          /\ IsAt(result, e2, wERROR)
                          /\ \A k \in e..e2 : result[k] \notin LineTerminators}
      drop == {i \in 1..Len(result) : \E e \in starts : i \in e..(e + 4)}
  IN  Trim(DropIndexes(result, 1, drop))

\* A result whose timeout flag is never set: what Verdict must differ
\* from.
Verdict_neverTimedOut(isInfected, viruses, file, resultString, timeout) ==
  [kind |-> "result", isInfected |-> isInfected, viruses |-> viruses,
   file |-> file, resultString |-> resultString, timeout |-> FALSE]

Verdict(isInfected, viruses, file, resultString, timeout) ==
  [kind |-> "result", isInfected |-> isInfected, viruses |-> viruses,
   file |-> file, resultString |-> resultString, timeout |-> timeout]

\* A parser whose last case reports a clean file: what ProcessResult must
\* differ from.
ProcessResult_unknownIsClean(text, file) ==
  LET result == Trim(text)
  IN  IF MatchesOK(result)
        THEN Verdict("false", << >>, file, result, FALSE)
      ELSE IF MatchesFOUND(result)
        THEN Verdict("true", Viruses(result), file, result, FALSE)
      ELSE IF MatchesERROR(result)
        THEN [kind |-> "Error", name |-> "ScanError",
              detail |-> ErrorDetail(result)]
      ELSE IF result = wTIMEDOUT
        THEN Verdict("null", << >>, file, result, TRUE)
      ELSE Verdict("false", << >>, file, result, FALSE)

\* ClamAVService._processResult: a ProcessResult record or an Error.
\* isInfected is "true", "false" or "null".
ProcessResult(text, file) ==
  LET result == Trim(text)
  IN  IF MatchesOK(result)
        THEN Verdict("false", << >>, file, result, FALSE)
      ELSE IF MatchesFOUND(result)
        THEN Verdict("true", Viruses(result), file, result, FALSE)
      ELSE IF MatchesERROR(result)
        THEN [kind |-> "Error", name |-> "ScanError",
              detail |-> ErrorDetail(result)]
      ELSE IF result = wTIMEDOUT
        THEN Verdict("null", << >>, file, result, TRUE)
      ELSE Verdict("null", << >>, file, result, FALSE)

\* isCleanReply of the clamd module
isCleanReply(reply) == Includes(reply, wOK) /\ ~ Includes(reply, wFOUND)

----------------------------------------------------------------------------
(* The frame encoder's writes                                              *)

\* A length is written [hi, lo] for hi * 2^16 + lo, with lo < 2^16: the
\* model checker's integers end at 2^31 - 1, Buffer lengths do not.
Length(n) == [hi |-> n \div 65536, lo |-> n % 65536]

\* 2^31 / 2^16 and 2^32 / 2^16: where the ranges of Buffer.writeInt32BE
\* and Buffer.writeUInt32BE end.
Int32LimitHi == 32768
UInt32LimitHi == 65536

\* The four bytes, most significant first, of a value below 2^32.
BigEndian4(value) ==
  << value.hi \div 256, value.hi % 256, value.lo \div 256, value.lo % 256 >>

\* Buffer.alloc(4) after writeInt32BE(value, 0), for a value >= 0; it
\* throws a RangeError (ERR_OUT_OF_RANGE) when the value is no signed
\* 32-bit integer.
writeInt32BE(value) ==
  IF value.hi >= Int32LimitHi
  THEN [threw |-> TRUE, bytes |-> << >>]
  ELSE [threw |-> FALSE, bytes |-> BigEndian4(value)]

\* Buffer.alloc(4) after writeUInt32BE(value, 0), for a value >= 0; it
\* throws a RangeError when the value is no unsigned 32-bit integer.
writeUInt32BE(value) ==
  IF value.hi >= UInt32LimitHi
  THEN [threw |-> TRUE, bytes |-> << >>]
  ELSE [threw |-> FALSE, bytes |-> BigEndian4(value)]

zINSTREAM == BufferFrom(<<"z","I","N","S","T","R","E","A","M",NUL>>)

\* A chunk handed to an encoder: its length and its bytes. (A chunk too
\* long to write out is given by its length and its first bytes.)
Chunk(bytes) == [length |-> Length(Len(bytes)), bytes |-> bytes]

\* ClamTransform._transform: the buffers pushed, the new _streaming, and
\* whether writeInt32BE threw before the size and the chunk were pushed.
ClamTransform_transform(isStreaming, chunk) ==
  LET first == IF ~ isStreaming THEN <<Chunk(zINSTREAM)>> ELSE << >>
      size == writeInt32BE(chunk.length)
  IN  IF size.threw
      THEN [out |-> first, streaming |-> TRUE, threw |-> TRUE]
      ELSE [out |-> first \o <<Chunk(size.bytes), chunk>>,
            streaming |-> TRUE, threw |-> FALSE]

\* A _flush that finds the readable side ended and pushes nothing: what
\* ClamTransform_flush must differ from.
ClamTransform_flush_silent(readableEnded) == << >>

\* ClamTransform._flush: the readable side has not ended when _flush
\* runs (push(null) follows the flush callback), so the size is pushed.
ClamTransform_flush(readableEnded) ==
  IF ~ readableEnded THEN <<Chunk(writeInt32BE(Length(0)).bytes)>> ELSE << >>

\* chunkTransform().transform of the clamd module
chunkTransform_transform(chunk) ==
  LET length == writeUInt32BE(chunk.length)
  IN  IF length.threw
      THEN [out |-> << >>, threw |-> TRUE]
      ELSE [out |-> <<Chunk(length.bytes), chunk>>, threw |-> FALSE]

\* chunkTransform().flush
chunkTransform_flush == <<Chunk(writeUInt32BE(Length(0)).bytes)>>

\* The bytes of a list of pushed buffers
BytesOf(pushes) == [i \in 1..Len(pushes) |-> pushes[i].bytes]

----------------------------------------------------------------------------
(* The upload hook and the frame encoder on its own: state                 *)

VARIABLES
  appVariant, \* which executePreFileUpload runs
  appIn,      \* its inputs: the settings, the scan's outcome, the lookups
  appPc,      \* "off", "start", "done"
  appNotified,\* notifyUser delivered the 'Virus found' message
  appOutcome  \* "none", "returned", or the name of what was thrown

appVars == << appVariant, appIn, appPc, appNotified, appOutcome >>

VARIABLES
  encKind,    \* "off", "ClamTransform" or "chunkTransform"
  encInput,   \* the chunks written to the encoder, in order
  encPos,     \* how many of them were transformed
  encStreaming, \* ClamTransform._streaming
  encOut,     \* what each call pushed: encOut[i] for the i-th chunk,
              \* then the pushes of the flush
  encState    \* "open", "flushed", "threw", "destroyed"

encVars == << encKind, encInput, encPos, encStreaming, encOut, encState >>

VARIABLES
  parseIn,    \* the reply handed to _processResult, piece by piece
  parsePc,    \* "off", "start", "done"
  parseOut    \* what _processResult returned

parseVars == << parseIn, parsePc, parseOut >>

VARIABLES
  rdKind,     \* "off", or which scanBuffer made the reader
  rdBuffer,   \* the buffer to scan
  rdSize,     \* the size read(size) is called with
  rdStart,    \* start: the read position
  rdPushed,   \* the blocks pushed, in order
  rdEnds      \* how many times the end of input was signalled

readVars == << rdKind, rdBuffer, rdSize, rdStart, rdPushed, rdEnds >>

VARIABLES
  cmdKind,    \* "off", or whose ping / version runs
  cmdName,    \* "ping" or "version"
  cmdConfigured, \* host and port are both truthy
  cmdScript,  \* the chunks the daemon sends, in order
  cmdPos,     \* how many of them the socket's data events have delivered
  cmdSock,    \* "none", "connecting", "open", "ended", "destroyed"
  cmdWired,   \* the data, end and error listeners of the command exist
  cmdRemoteEnded, \* the socket's end event was emitted
  cmdWritten, \* the buffers client.write accepted, in order
  cmdReplies, \* replies
  cmdPromise  \* the promise ping / version returned

cmdVars ==
  << cmdKind, cmdName, cmdConfigured, cmdScript, cmdPos, cmdSock, cmdWired,
     cmdRemoteEnded, cmdWritten, cmdReplies, cmdPromise >>

VARIABLES
  prVariant,  \* "off", or which scanStream the two scans run
  scans       \* scans[i]: what the i-th call of scanStream holds in its
              \* closure, with its socket and its input source

pairVars == << prVariant, scans >>

----------------------------------------------------------------------------
(* The scan session: state                                                 *)

Variants == {"svc", "p3", "clamd"}

\* The most chunks an input source delivers.
MaxChunks == 2

\* The i-th chunk of the input source: one or two bytes, all distinct.
SrcChunk(i) == [j \in 1..(1 + (i % 2)) |-> 16 * i + j]

\* The input sources: a Readable in byte mode delivers no empty chunk.
Inputs == {[i \in 1..n |-> SrcChunk(i)] : n \in 0..MaxChunks}

tStreamOK == <<"s", ":", " ", "O", "K", NUL>>
tStreamFOUND == <<"s", ":", " ", "x", " ", "F", "O", "U", "N", "D", NUL>>
tERROR == <<"x", " ", "E", "R", "R", "O", "R", NUL>>

\* What the daemon sends, chunk by chunk, if the connection lasts.
DaemonScripts ==
  { << >>,
    <<BufferFrom(tStreamOK)>>,
    <<BufferFrom(<<"s", ":", " ">>), BufferFrom(<<"O", "K", NUL>>)>>,
    <<BufferFrom(tStreamFOUND)>>,
    <<BufferFrom(tERROR)>> }

\* The optional name of the scanned file, passed to _processResult.
FileName == "upload.bin"

VARIABLES
  variant,    \* which scanStream runs
  settings,   \* [host, port]: whether each setting is truthy
  input,      \* the chunks the input source delivers, in order
  ipos,       \* how many of them its data events have delivered
  script,     \* the chunks the daemon sends, in order
  dpos,       \* how many of them the socket's data events have delivered
  sock,       \* "none", "connecting", "open", "ended" (our end() called), "destroyed"
  remoteEnded,\* the socket's end event was emitted
  closeSeen,  \* the socket's close event was handled
  wired,      \* the input source's listeners (or pipe) are attached
  paused,     \* the input source's isPaused()
  srcEnded,   \* the input source emitted end
  srcErrored, \* the input source emitted error
  finished,   \* finished (svc) / readFinished (p3)
  streaming,  \* ClamTransform._streaming
  tState,     \* the transform: "open", "ended", "destroyed"
  tbuf,       \* p3: output of the transform the socket has not taken yet
  sockFull,   \* p3: socket.write returned false, no drain since
  awaitDrain, \* p3: the pipe paused the input source until the drain
  written,    \* the buffers socket.write accepted, in order
  chunks,     \* chunks (svc) / replies (p3, clamd)
  promise,    \* the promise scanStream returned
  timedOut,   \* the socket's idle timer has fired
  sockFin     \* how the socket finished: "none", "endEarly", "endNormal",
              \* "errEarly", "errLate" (early: before the input's end)

sessVars ==
  << variant, settings, input, ipos, script, dpos, sock, remoteEnded,
     closeSeen, wired, paused, srcEnded, srcErrored, finished, streaming,
     tState, tbuf, sockFull, awaitDrain, written, chunks, promise, timedOut,
     sockFin >>

Pending == [state |-> "pending", value |-> [kind |-> "none"]]

Err(name) == [kind |-> "Error", name |-> name]

\* resolve(value) / reject(value): the first settlement stands.
Settle(p, state, value) ==
  IF p.state = "pending" THEN [state |-> state, value |-> value] ELSE p

\* new Error('Scan aborted. Reply from server: ' + reply)
Aborted(reply) ==
  [kind |-> "Error", name |-> "Aborted", reply |-> BufToString(reply)]

\* Nothing has run yet.
SessStart ==
  /\ ipos = 0 /\ dpos = 0
  /\ sock = "none" /\ remoteEnded = FALSE /\ closeSeen = FALSE
  /\ wired = FALSE /\ paused = FALSE
  /\ srcEnded = FALSE /\ srcErrored = FALSE
  /\ finished = FALSE /\ streaming = FALSE /\ tState = "open"
  /\ tbuf = << >> /\ sockFull = FALSE /\ awaitDrain = FALSE
  /\ written = << >> /\ chunks = << >>
  /\ promise = Pending
  /\ timedOut = FALSE /\ sockFin = "none"

SessInit ==
  /\ variant \in Variants
  /\ settings \in [host : BOOLEAN, port : BOOLEAN]
  /\ input \in Inputs
  /\ script \in DaemonScripts
  /\ SessStart

\* No scan runs.
SessOff ==
  /\ variant = "svc"
  /\ settings = [host |-> FALSE, port |-> FALSE]
  /\ input = << >>
  /\ script = << >>
  /\ SessStart

----------------------------------------------------------------------------
(* The scan session: scanStream is called                                  *)

NotCalled == sock = "none" /\ promise.state = "pending"

\* ClamAVService.scanStream up to the await of _initSocket()
Svc_scanStream ==
  /\ variant = "svc" /\ NotCalled
  /\ IF ~ settings.port /\ ~ settings.host
     THEN /\ promise' = Settle(promise, "rejected", Err("InvalidInfo"))
          /\ sock' = sock
     ELSE IF settings.port /\ settings.host
     THEN /\ sock' = "connecting"
          /\ promise' = promise
     ELSE \* _initSocket throws in its executor; the await throws; catch
          /\ promise' = Settle(promise, "rejected", Err("NoHostPort"))
          /\ sock' = sock
  /\ UNCHANGED << appVars, encVars, parseVars, readVars, cmdVars, pairVars, variant, settings, input, ipos, script, dpos, remoteEnded,
                  closeSeen, wired, paused, srcEnded, srcErrored, finished,
                  streaming, tState, tbuf, sockFull, awaitDrain, written,
                  chunks, timedOut, sockFin >>

\* A createScanner that does not look at host and port: what Clamd_call
\* must differ from.
Clamd_call_unchecked ==
  /\ NotCalled
  /\ sock' = "connecting"
  /\ promise' = promise
  /\ UNCHANGED << appVars, encVars, parseVars, readVars, cmdVars, pairVars, variant, settings, input, ipos, script, dpos, remoteEnded,
                  closeSeen, wired, paused, srcEnded, srcErrored, finished,
                  streaming, tState, tbuf, sockFull, awaitDrain, written,
                  chunks, timedOut, sockFin >>

\* createScanner(host, port) and scanStream up to net.createConnection:
\* the body shared by the two clamd modules.
Clamd_call ==
  /\ NotCalled
  /\ IF ~ settings.host \/ ~ settings.port
     THEN /\ promise' = [state |-> "thrown", value |-> Err("MustProvideHostPort")]
          /\ sock' = sock
     ELSE /\ sock' = "connecting"
          /\ promise' = promise
  /\ UNCHANGED << appVars, encVars, parseVars, readVars, cmdVars, pairVars, variant, settings, input, ipos, script, dpos, remoteEnded,
                  closeSeen, wired, paused, srcEnded, srcErrored, finished,
                  streaming, tState, tbuf, sockFull, awaitDrain, written,
                  chunks, timedOut, sockFin >>

P3_scanStream == variant = "p3" /\ Clamd_call

Clamd_scanStream == variant = "clamd" /\ Clamd_call

----------------------------------------------------------------------------
(* The connection is made, fails or times out                              *)

\* _initSocket's connect listener resolves; scanStream attaches its
\* listeners to the transform, the input stream and the socket.
Svc_OnConnect ==
  /\ variant = "svc" /\ sock = "connecting"
  /\ sock' = "open" /\ wired' = TRUE
  /\ UNCHANGED << appVars, encVars, parseVars, readVars, cmdVars, pairVars, variant, settings, input, ipos, script, dpos, remoteEnded,
                  closeSeen, paused, srcEnded, srcErrored, finished,
                  streaming, tState, tbuf, sockFull, awaitDrain, written,
                  chunks, promise, timedOut, sockFin >>

\* The connect callback: the command is written, the input is piped
\* through chunkTransform() into the socket.
P3_OnConnect ==
  /\ variant = "p3" /\ sock = "connecting"
  /\ sock' = "open" /\ wired' = TRUE
  /\ written' = Append(written, zINSTREAM)
  /\ UNCHANGED << appVars, encVars, parseVars, readVars, cmdVars, pairVars, variant, settings, input, ipos, script, dpos, remoteEnded,
                  closeSeen, paused, srcEnded, srcErrored, finished,
                  streaming, tState, tbuf, sockFull, awaitDrain,
                  chunks, promise, timedOut, sockFin >>

\* The connect callback of src/clamd.ts: the command is written, then
\* chunkTransform() evaluates `new Transform`, a name the module never
\* imports (only Readable is): a ReferenceError ends the callback before
\* the pipe and the input stream's listeners exist.
Clamd_OnConnect ==
  /\ variant = "clamd" /\ sock = "connecting"
  /\ sock' = "open"
  /\ written' = Append(written, zINSTREAM)
  /\ UNCHANGED << appVars, encVars, parseVars, readVars, cmdVars, pairVars, variant, settings, input, ipos, script, dpos, remoteEnded,
                  closeSeen, wired, paused, srcEnded, srcErrored, finished,
                  streaming, tState, tbuf, sockFull, awaitDrain,
                  chunks, promise, timedOut, sockFin >>

\* The socket's error event while connecting: reject(e). The runtime
\* destroys a socket that failed.
ConnectError ==
  /\ sock = "connecting"
  /\ sock' = "destroyed"
  /\ promise' = Settle(promise, "rejected", Err("ConnectFailed"))
  /\ UNCHANGED << appVars, encVars, parseVars, readVars, cmdVars, pairVars, variant, settings, input, ipos, script, dpos, remoteEnded,
                  closeSeen, wired, paused, srcEnded, srcErrored, finished,
                  streaming, tState, tbuf, sockFull, awaitDrain, written,
                  chunks, timedOut, sockFin >>

Svc_OnConnectError == variant = "svc" /\ ConnectError

P3_OnConnectError == variant = "p3" /\ ConnectError

Clamd_OnConnectError == variant = "clamd" /\ ConnectError

\* _initSocket's timeout listener: reject (of the _initSocket promise,
\* which only matters while scanStream still awaits it), then client.end().
Svc_OnTimeout ==
  /\ variant = "svc" /\ sock \in {"connecting", "open"} /\ ~ timedOut
  /\ timedOut' = TRUE
  /\ promise' = IF sock = "connecting"
                THEN Settle(promise, "rejected", Err("ConnectionTimedOut"))
                ELSE promise
  /\ sock' = "ended"
  /\ UNCHANGED << appVars, encVars, parseVars, readVars, cmdVars, pairVars, variant, settings, input, ipos, script, dpos, remoteEnded,
                  closeSeen, wired, paused, srcEnded, srcErrored, finished,
                  streaming, tState, tbuf, sockFull, awaitDrain, written,
                  chunks, sockFin >>

\* socket.setTimeout(timeout) with no timeout listener: the timer fires
\* and nothing handles it (the connection is not severed).
NoTimeoutListener ==
  /\ sock \in {"connecting", "open", "ended"} /\ ~ timedOut
  /\ timedOut' = TRUE
  /\ UNCHANGED << appVars, encVars, parseVars, readVars, cmdVars, pairVars, variant, settings, input, ipos, script, dpos, sock,
                  remoteEnded, closeSeen, wired, paused, srcEnded, srcErrored,
                  finished, streaming, tState, tbuf, sockFull, awaitDrain,
                  written, chunks, promise, sockFin >>

P3_Timeout == variant = "p3" /\ NoTimeoutListener

Clamd_Timeout == variant = "clamd" /\ NoTimeoutListener

----------------------------------------------------------------------------
(* The input source's events                                               *)

Flowing == wired /\ ~ paused /\ ~ srcEnded /\ ~ srcErrored

\* socket.write(data) for each buffer the transform's data listener gets
\* (svc): accepted while the socket is open; after our own end() the
\* write fails with ERR_STREAM_WRITE_AFTER_END, which the socket emits as
\* an error; a destroyed socket takes nothing and emits nothing.
SvcWrite(bufs) ==
  IF bufs = << >> \/ sock = "destroyed"
  THEN [written |-> written, sock |-> sock, error |-> FALSE]
  ELSE IF sock = "ended"
  THEN [written |-> written, sock |-> "destroyed", error |-> TRUE]
  ELSE [written |-> written \o bufs, sock |-> sock, error |-> FALSE]

\* The socket's error listener of ClamAVService.scanStream: socket.end(),
\* transform.destroy(), reject(err).
SvcOnSocketError(name) ==
  /\ tState' = "destroyed"
  /\ promise' = Settle(promise, "rejected", Err(name))
  /\ sockFin' = IF sockFin # "none" THEN sockFin
                ELSE IF srcEnded' THEN "errLate" ELSE "errEarly"

\* The input stream's data listener: transform.write(data); the
\* transform's data listener writes every pushed buffer to the socket.
Svc_StreamData ==
  /\ variant = "svc" /\ Flowing /\ ipos < Len(input)
  /\ ipos' = ipos + 1
  /\ srcEnded' = srcEnded
  /\ IF tState = "open"
     THEN LET t == ClamTransform_transform(streaming, Chunk(input[ipos + 1]))
              w == SvcWrite(BytesOf(t.out))
          IN  /\ streaming' = t.streaming
              /\ written' = w.written
              /\ sock' = w.sock
              /\ IF w.error
                 THEN SvcOnSocketError("ERR_STREAM_WRITE_AFTER_END")
                 ELSE UNCHANGED << tState, promise, sockFin >>
     ELSE \* a write to a destroyed transform is dropped
          UNCHANGED << streaming, written, sock, tState, promise, sockFin >>
  /\ UNCHANGED << appVars, encVars, parseVars, readVars, cmdVars, pairVars, variant, settings, input, script, dpos, remoteEnded,
                  closeSeen, wired, paused, srcErrored, finished,
                  tbuf, sockFull, awaitDrain, chunks, timedOut >>

\* The input stream's end listener: finished = true, transform.end();
\* the flush runs inside end() and its push reaches the socket at once.
Svc_StreamEnd ==
  /\ variant = "svc" /\ Flowing /\ ipos = Len(input)
  /\ srcEnded' = TRUE
  /\ finished' = TRUE
  /\ IF tState = "open"
     THEN LET w == SvcWrite(BytesOf(ClamTransform_flush(FALSE)))
          IN  /\ written' = w.written
              /\ sock' = w.sock
              /\ IF w.error
                 THEN SvcOnSocketError("ERR_STREAM_WRITE_AFTER_END")
                 ELSE /\ tState' = "ended"
                      /\ UNCHANGED << promise, sockFin >>
     ELSE UNCHANGED << written, sock, tState, promise, sockFin >>
  /\ UNCHANGED << appVars, encVars, parseVars, readVars, cmdVars, pairVars, variant, settings, input, ipos, script, dpos, remoteEnded,
                  closeSeen, wired, paused, srcErrored, streaming,
                  tbuf, sockFull, awaitDrain, chunks, timedOut >>

\* The input stream's error listener (svc): reject(err), nothing else.
Svc_StreamError ==
  /\ variant = "svc" /\ wired /\ ~ srcEnded /\ ~ srcErrored
  /\ srcErrored' = TRUE
  /\ promise' = Settle(promise, "rejected", Err("InputStreamError"))
  /\ UNCHANGED << appVars, encVars, parseVars, readVars, cmdVars, pairVars, variant, settings, input, ipos, script, dpos, sock,
                  remoteEnded, closeSeen, wired, paused, srcEnded, finished,
                  streaming, tState, tbuf, sockFull, awaitDrain, written,
                  chunks, timedOut, sockFin >>

\* transform.pipe(socket): the buffers go to socket.write in order while
\* the socket is open and has not reported back-pressure; k > 0 says the
\* k-th write returned false, and what follows waits in the transform.
PipeToSocket(bufs, k) ==
  IF sock # "open" \/ sockFull
  THEN [written |-> written, tbuf |-> tbuf \o bufs, full |-> sockFull]
  ELSE IF k = 0
  THEN [written |-> written \o bufs, tbuf |-> << >>, full |-> FALSE]
  ELSE [written |-> written \o SubSeq(bufs, 1, k),
        tbuf |-> SubSeq(bufs, k + 1, Len(bufs)), full |-> TRUE]

\* readStream.pipe(chunkTransform()).pipe(socket), one chunk: the pipe
\* pauses the input when the transform reports back-pressure (pipePause).
P3_StreamData ==
  /\ variant = "p3" /\ Flowing /\ ipos < Len(input)
  /\ ipos' = ipos + 1
  /\ LET t == chunkTransform_transform(Chunk(input[ipos + 1]))
     IN  \E k \in 0..Len(t.out), pipePause \in BOOLEAN :
           LET w == PipeToSocket(BytesOf(t.out), k)
           IN  /\ written' = w.written
               /\ tbuf' = w.tbuf
               /\ sockFull' = w.full
               /\ pipePause => w.full /\ sock = "open"
               /\ awaitDrain' = (awaitDrain \/ pipePause)
               /\ paused' = (paused \/ pipePause)
  /\ UNCHANGED << appVars, encVars, parseVars, readVars, cmdVars, pairVars, variant, settings, input, script, dpos, sock, remoteEnded,
                  closeSeen, wired, srcEnded, srcErrored, finished,
                  streaming, tState, chunks, promise, timedOut, sockFin >>

\* The input's end: the pipe's own end listener (attached first) ends the
\* transform, whose flush pushes the terminator; when the transform has
\* handed everything over, the second pipe ends the socket. Then the
\* session's listener: readFinished = true, readStream.destroy().
P3_StreamEnd ==
  /\ variant = "p3" /\ Flowing /\ ipos = Len(input)
  /\ srcEnded' = TRUE
  /\ finished' = TRUE
  /\ tState' = "ended"
  /\ \E k \in 0..Len(chunkTransform_flush) :
       LET w == PipeToSocket(BytesOf(chunkTransform_flush), k)
       IN  /\ written' = w.written
           /\ tbuf' = w.tbuf
           /\ sockFull' = w.full
           /\ sock' = IF sock = "open" /\ w.tbuf = << >> /\ ~ w.full
                      THEN "ended" ELSE sock
  /\ UNCHANGED << appVars, encVars, parseVars, readVars, cmdVars, pairVars, variant, settings, input, ipos, script, dpos, remoteEnded,
                  closeSeen, wired, paused, srcErrored, streaming,
                  awaitDrain, chunks, promise, timedOut, sockFin >>

\* .on('error', reject) on the input stream (p3)
P3_StreamError ==
  /\ variant = "p3" /\ wired /\ ~ srcEnded /\ ~ srcErrored
  /\ srcErrored' = TRUE
  /\ promise' = Settle(promise, "rejected", Err("InputStreamError"))
  /\ UNCHANGED << appVars, encVars, parseVars, readVars, cmdVars, pairVars, variant, settings, input, ipos, script, dpos, sock,
                  remoteEnded, closeSeen, wired, paused, srcEnded, finished,
                  streaming, tState, tbuf, sockFull, awaitDrain, written,
                  chunks, timedOut, sockFin >>

\* The socket's drain event (p3): the transform hands over what it held;
\* once the socket takes all of it the pipe resumes an input it had
\* paused, and an ended transform ends the socket.
P3_SocketDrain ==
  /\ variant = "p3" /\ sock = "open" /\ sockFull
  /\ \E k \in 0..Len(tbuf) :
       /\ written' = written \o (IF k = 0 THEN tbuf ELSE SubSeq(tbuf, 1, k))
       /\ tbuf' = IF k = 0 THEN << >> ELSE SubSeq(tbuf, k + 1, Len(tbuf))
       /\ sockFull' = (k # 0)
       /\ IF k = 0
          THEN /\ awaitDrain' = FALSE
               /\ paused' = IF awaitDrain THEN FALSE ELSE paused
               /\ sock' = IF tState = "ended" THEN "ended" ELSE sock
          ELSE UNCHANGED << awaitDrain, paused, sock >>
  /\ UNCHANGED << appVars, encVars, parseVars, readVars, cmdVars, pairVars, variant, settings, input, ipos, script, dpos, remoteEnded,
                  closeSeen, wired, srcEnded, srcErrored, finished,
                  streaming, tState, chunks, promise, timedOut, sockFin >>

----------------------------------------------------------------------------
(* The socket's events                                                     *)

\* The daemon's side of the connection can still deliver events.
Readable == sock \in {"open", "ended"} /\ ~ remoteEnded

\* A data listener that keeps the last chunk only: what Svc_SocketData
\* must differ from.
Svc_SocketData_keepsLast ==
  /\ variant = "svc" /\ wired /\ Readable /\ dpos < Len(script)
  /\ dpos' = dpos + 1
  /\ paused' = TRUE
  /\ chunks' = << script[dpos + 1] >>
  /\ UNCHANGED << appVars, encVars, parseVars, readVars, cmdVars, pairVars, variant, settings, input, ipos, script, sock, remoteEnded,
                  closeSeen, wired, srcEnded, srcErrored, finished, streaming,
                  tState, tbuf, sockFull, awaitDrain, written, promise,
                  timedOut, sockFin >>

\* The socket's data listener (svc): pause the input unless it is paused,
\* keep the chunk.
Svc_SocketData ==
  /\ variant = "svc" /\ wired /\ Readable /\ dpos < Len(script)
  /\ dpos' = dpos + 1
  /\ paused' = TRUE
  /\ chunks' = Append(chunks, script[dpos + 1])
  /\ UNCHANGED << appVars, encVars, parseVars, readVars, cmdVars, pairVars, variant, settings, input, ipos, script, sock, remoteEnded,
                  closeSeen, wired, srcEnded, srcErrored, finished, streaming,
                  tState, tbuf, sockFull, awaitDrain, written, promise,
                  timedOut, sockFin >>

\* The socket's data listener (p3): the same.
P3_SocketData ==
  /\ variant = "p3" /\ Readable /\ dpos < Len(script)
  /\ dpos' = dpos + 1
  /\ paused' = TRUE
  /\ chunks' = Append(chunks, script[dpos + 1])
  /\ UNCHANGED << appVars, encVars, parseVars, readVars, cmdVars, pairVars, variant, settings, input, ipos, script, sock, remoteEnded,
                  closeSeen, wired, srcEnded, srcErrored, finished, streaming,
                  tState, tbuf, sockFull, awaitDrain, written, promise,
                  timedOut, sockFin >>

\* The socket's data listener (src/clamd.ts): keep the chunk.
Clamd_SocketData ==
  /\ variant = "clamd" /\ Readable /\ dpos < Len(script)
  /\ dpos' = dpos + 1
  /\ chunks' = Append(chunks, script[dpos + 1])
  /\ UNCHANGED << appVars, encVars, parseVars, readVars, cmdVars, pairVars, variant, settings, input, ipos, script, sock, remoteEnded,
                  closeSeen, wired, paused, srcEnded, srcErrored, finished,
                  streaming, tState, tbuf, sockFull, awaitDrain, written,
                  promise, timedOut, sockFin >>

EndKind == IF srcEnded THEN "endNormal" ELSE "endEarly"

\* An end listener that hands the decoded reply over unparsed: what
\* SvcEndOutcome must differ from.
SvcEndOutcome_unparsed(p, isFinished, replies) ==
  LET response == Concat(replies)
  IN  IF ~ isFinished THEN Settle(p, "rejected", Aborted(response))
      ELSE Settle(p, "resolved",
                  [kind |-> "reply", text |-> BufToString(response)])

\* The end listener's verdict (svc): the chunks are concatenated and
\* decoded; an unfinished input makes it an aborted scan; otherwise the
\* parser's result is resolved, or rejected when it is an Error.
SvcEndOutcome(p, isFinished, replies) ==
  LET response == Concat(replies)
      result == ProcessResult(BufToString(response), FileName)
  IN  IF ~ isFinished THEN Settle(p, "rejected", Aborted(response))
      ELSE IF result.kind = "Error"
           THEN Settle(p, "rejected", result)
           ELSE Settle(p, "resolved", result)

\* The socket's end listener (svc): socket.destroy(), transform.destroy(),
\* then the aborted-scan rejection or the parsed result.
Svc_SocketEnd ==
  /\ variant = "svc" /\ wired /\ Readable
  /\ remoteEnded' = TRUE
  /\ sock' = "destroyed"
  /\ tState' = "destroyed"
  /\ sockFin' = IF sockFin = "none" THEN EndKind ELSE sockFin
  /\ promise' = SvcEndOutcome(promise, finished, chunks)
  /\ UNCHANGED << appVars, encVars, parseVars, readVars, cmdVars, pairVars, variant, settings, input, ipos, script, dpos, closeSeen,
                  wired, paused, srcEnded, srcErrored, finished, streaming,
                  tbuf, sockFull, awaitDrain, written, chunks, timedOut >>

\* The socket's end listener (p3). The socket was made with the default
\* allowHalfOpen = false, so the runtime ends and destroys it after the
\* end event.
P3_SocketEnd ==
  /\ variant = "p3" /\ Readable
  /\ remoteEnded' = TRUE
  /\ sock' = "destroyed"
  /\ sockFin' = IF sockFin = "none" THEN EndKind ELSE sockFin
  /\ LET reply == Concat(chunks)
     IN  promise' =
           IF ~ finished THEN Settle(promise, "rejected", Aborted(reply))
           ELSE Settle(promise, "resolved",
                       [kind |-> "reply", text |-> BufToString(reply)])
  /\ UNCHANGED << appVars, encVars, parseVars, readVars, cmdVars, pairVars, variant, settings, input, ipos, script, dpos, closeSeen,
                  wired, paused, srcEnded, srcErrored, finished, streaming,
                  tState, tbuf, sockFull, awaitDrain, written, chunks,
                  timedOut >>

\* The socket's end listener (src/clamd.ts): resolve(reply.toString()).
Clamd_SocketEnd ==
  /\ variant = "clamd" /\ Readable
  /\ remoteEnded' = TRUE
  /\ sock' = "destroyed"
  /\ sockFin' = IF sockFin = "none" THEN EndKind ELSE sockFin
  /\ LET reply == Concat(chunks)
     IN  promise' = Settle(promise, "resolved",
                           [kind |-> "reply", text |-> BufToString(reply)])
  /\ UNCHANGED << appVars, encVars, parseVars, readVars, cmdVars, pairVars, variant, settings, input, ipos, script, dpos, closeSeen,
                  wired, paused, srcEnded, srcErrored, finished, streaming,
                  tState, tbuf, sockFull, awaitDrain, written, chunks,
                  timedOut >>

ErrKind == IF srcEnded THEN "errLate" ELSE "errEarly"

\* The socket's error listeners (svc): _initSocket's reject is spent;
\* scanStream's listener calls socket.end(), transform.destroy(), reject.
Svc_SocketError ==
  /\ variant = "svc" /\ wired /\ Readable
  /\ sock' = "destroyed"
  /\ tState' = "destroyed"
  /\ sockFin' = IF sockFin = "none" THEN ErrKind ELSE sockFin
  /\ promise' = Settle(promise, "rejected", Err("SocketError"))
  /\ UNCHANGED << appVars, encVars, parseVars, readVars, cmdVars, pairVars, variant, settings, input, ipos, script, dpos, remoteEnded,
                  closeSeen, wired, paused, srcEnded, srcErrored, finished,
                  streaming, tbuf, sockFull, awaitDrain, written, chunks,
                  timedOut >>

\* .on('error', reject) on the socket; the runtime destroys the socket.
ClamdSocketError ==
  /\ Readable
  /\ sock' = "destroyed"
  /\ sockFin' = IF sockFin = "none" THEN ErrKind ELSE sockFin
  /\ promise' = Settle(promise, "rejected", Err("SocketError"))
  /\ UNCHANGED << appVars, encVars, parseVars, readVars, cmdVars, pairVars, variant, settings, input, ipos, script, dpos, remoteEnded,
                  closeSeen, wired, paused, srcEnded, srcErrored, finished,
                  streaming, tState, tbuf, sockFull, awaitDrain, written,
                  chunks, timedOut >>

P3_SocketError == variant = "p3" /\ ClamdSocketError

Clamd_SocketError == variant = "clamd" /\ ClamdSocketError

\* The socket's close listener (svc): socket.end() on a socket that is
\* destroyed already, and a log line.
Svc_SocketClose ==
  /\ variant = "svc" /\ wired /\ sock = "destroyed" /\ ~ closeSeen
  /\ closeSeen' = TRUE
  /\ UNCHANGED << appVars, encVars, parseVars, readVars, cmdVars, pairVars, variant, settings, input, ipos, script, dpos, sock,
                  remoteEnded, wired, paused, srcEnded, srcErrored, finished,
                  streaming, tState, tbuf, sockFull, awaitDrain, written,
                  chunks, promise, timedOut, sockFin >>

----------------------------------------------------------------------------
(* executePreFileUpload                                                    *)

\* The four executePreFileUpload of the repository:
\*   "ifTrue"      ClamAvIntegrationApp.ts 28-53   (if (true) { ... throw })
\*   "integration" ClamAvIntegrationApp.ts 108-146
\*   "testApp"     ClamAvIntegrationApp.ts 193-207 (ClamAvTestApp)
\*   "tryCatch"    unnamed/part_000 37-84          (try { ... } catch)
AppVariants == {"ifTrue", "integration", "testApp", "tryCatch"}

tTOKEN == <<"T", "O", "K", "E", "N">>
tFoundThenOK == tStreamFOUND \o tStreamOK

\* What the daemon may have answered when scanBuffer resolves
ReplyTexts ==
  { << >>, tStreamOK, tStreamFOUND, tERROR, wTIMEDOUT, tTOKEN, tFoundThenOK }

\* How await scanner.scanBuffer(...) ends: the promise is rejected (no
\* connection, aborted scan, socket error) or resolves with the reply.
ScanOutcomes ==
  {[kind |-> "rejected", text |-> << >>]} \cup
  {[kind |-> "reply", text |-> t] : t \in ReplyTexts}

\* host, port: the setting is truthy; room: getRoomReader().getById found
\* the room; appUser: getUserReader().getAppUser found the app's user.
AppInputs ==
  [host : BOOLEAN, port : BOOLEAN, scan : ScanOutcomes,
   room : BOOLEAN, appUser : BOOLEAN]

Ends(outcome, notified) == [outcome |-> outcome, notified |-> notified]

\* notifyUser of message/notify.ts: throws without the app's user, sends
\* the message to the uploader otherwise.
notifyUser(in) ==
  IF ~ in.appUser
  THEN [threw |-> TRUE, notified |-> FALSE]
  ELSE [threw |-> FALSE, notified |-> TRUE]

\* if (room) { await notifyUser(...) }
NotifyIfRoom(in) ==
  IF in.room THEN notifyUser(in) ELSE [threw |-> FALSE, notified |-> FALSE]

\* ClamAvIntegrationApp.ts 28-53
IfTrue_executePreFileUpload(in) ==
  IF ~ in.host \/ ~ in.port THEN Ends("MissingConfiguration", FALSE)
  ELSE IF in.scan.kind = "rejected" THEN Ends("ScanFailed", FALSE)
  ELSE IF in.scan.text = << >> THEN Ends("EmptyResult", FALSE)
  ELSE LET n == NotifyIfRoom(in)
       IN  IF n.threw THEN Ends("user-not-found", FALSE)
           ELSE Ends("FileUploadNotAllowedException", n.notified)

\* ClamAvIntegrationApp.ts 116-145: from the await of scanBuffer on. The
\* second test of scanStatus (line 136) can never hold.
Integration_scanAndDecide(in) ==
  IF in.scan.kind = "rejected" THEN Ends("ScanFailed", FALSE)
  ELSE IF in.scan.text = << >> THEN Ends("EmptyResult", FALSE)
  ELSE IF ~ isCleanReply(in.scan.text)
       THEN LET n == NotifyIfRoom(in)
            IN  IF n.threw THEN Ends("user-not-found", FALSE)
                ELSE Ends("FileUploadNotAllowedException", n.notified)
       ELSE Ends("returned", FALSE)

\* ClamAvIntegrationApp.ts 108-146
Integration_executePreFileUpload(in) ==
  IF ~ in.host \/ ~ in.port THEN Ends("MissingConfiguration", FALSE)
  ELSE Integration_scanAndDecide(in)

\* ClamAvIntegrationApp.ts 193-207 (ClamAvTestApp)
TestApp_executePreFileUpload(in) ==
  IF ~ in.host \/ ~ in.port THEN Ends("MissingConfiguration", FALSE)
  ELSE IF in.scan.kind = "rejected" THEN Ends("ScanFailed", FALSE)
  ELSE IF ~ isCleanReply(in.scan.text)
       THEN Ends("FileUploadNotAllowedException", FALSE)
       ELSE Ends("returned", FALSE)

\* unnamed/part_000 37-84: the body of the try is that of lines 116-145
\* above; the catch logs whatever was thrown and the function returns.
TryCatch_executePreFileUpload(in) ==
  IF ~ in.host \/ ~ in.port THEN Ends("MissingConfiguration", FALSE)
  ELSE LET body == Integration_scanAndDecide(in)
       IN  Ends("returned", body.notified)

AppRuns(v, end) ==
  /\ appVariant = v /\ appPc = "start"
  /\ appPc' = "done"
  /\ appOutcome' = end.outcome
  /\ appNotified' = end.notified
  /\ UNCHANGED << appVariant, appIn, sessVars, encVars, parseVars, readVars, cmdVars, pairVars >>

App_IfTrue == AppRuns("ifTrue", IfTrue_executePreFileUpload(appIn))

App_Integration ==
  AppRuns("integration", Integration_executePreFileUpload(appIn))

App_TestApp == AppRuns("testApp", TestApp_executePreFileUpload(appIn))

App_TryCatch == AppRuns("tryCatch", TryCatch_executePreFileUpload(appIn))

AppInit ==
  /\ appVariant \in AppVariants
  /\ appIn \in AppInputs
  /\ appPc = "start" /\ appNotified = FALSE /\ appOutcome = "none"

----------------------------------------------------------------------------
(* The frame encoder, written to chunk by chunk and then ended             *)

EncKinds == {"ClamTransform", "chunkTransform"}

\* The longest list of chunks written to an encoder
MaxEncChunks == 3

\* A chunk of 2^31 bytes, given by its length and its first byte.
BigChunk == [length |-> [hi |-> Int32LimitHi, lo |-> 0], bytes |-> <<7>>]

EncChunks == {Chunk(<< >>), Chunk(<<1>>), Chunk(<<2, 3>>), BigChunk}

EncInputs == UNION {[1..n -> EncChunks] : n \in 0..MaxEncChunks}

\* Readable.push in byte mode: a buffer of length 0 is not added.
Pushed(bufs) == SelectSeq(bufs, LAMBDA b : b.length # Length(0))

\* transform.write(chunk) on a ClamTransform
ClamTransform_write ==
  /\ encKind = "ClamTransform" /\ encState = "open"
  /\ encPos < Len(encInput)
  /\ LET r == ClamTransform_transform(encStreaming, encInput[encPos + 1])
     IN  /\ encOut' = Append(encOut, Pushed(r.out))
         /\ encStreaming' = r.streaming
         /\ encState' = IF r.threw THEN "threw" ELSE "open"
  /\ encPos' = encPos + 1
  /\ UNCHANGED << encKind, encInput, sessVars, appVars, parseVars, readVars, cmdVars, pairVars >>

\* transform.end() on a ClamTransform
ClamTransform_end ==
  /\ encKind = "ClamTransform" /\ encState = "open"
  /\ encPos = Len(encInput)
  /\ encOut' = Append(encOut, Pushed(ClamTransform_flush(FALSE)))
  /\ encState' = "flushed"
  /\ UNCHANGED << encKind, encInput, encPos, encStreaming, sessVars, appVars, parseVars, readVars, cmdVars, pairVars >>

\* write(chunk) on the Transform chunkTransform() made
chunkTransform_write ==
  /\ encKind = "chunkTransform" /\ encState = "open"
  /\ encPos < Len(encInput)
  /\ LET r == chunkTransform_transform(encInput[encPos + 1])
     IN  /\ encOut' = Append(encOut, Pushed(r.out))
         /\ encState' = IF r.threw THEN "threw" ELSE "open"
  /\ encPos' = encPos + 1
  /\ UNCHANGED << encKind, encInput, encStreaming, sessVars, appVars, parseVars, readVars, cmdVars, pairVars >>

\* end() on the Transform chunkTransform() made
chunkTransform_end ==
  /\ encKind = "chunkTransform" /\ encState = "open"
  /\ encPos = Len(encInput)
  /\ encOut' = Append(encOut, Pushed(chunkTransform_flush))
  /\ encState' = "flushed"
  /\ UNCHANGED << encKind, encInput, encPos, encStreaming, sessVars, appVars, parseVars, readVars, cmdVars, pairVars >>

\* destroy() on an encoder before its input has ended. A destroyed
\* Transform runs no flush: a later end() finishes nothing (the Writable
\* side finishes only a stream that is not destroyed), so nothing more is
\* pushed.
ClamTransform_destroy ==
  /\ encKind = "ClamTransform" /\ encState = "open"
  /\ encState' = "destroyed"
  /\ UNCHANGED << encKind, encInput, encPos, encStreaming, encOut,
                  sessVars, appVars, parseVars, readVars, cmdVars, pairVars >>

chunkTransform_destroy ==
  /\ encKind = "chunkTransform" /\ encState = "open"
  /\ encState' = "destroyed"
  /\ UNCHANGED << encKind, encInput, encPos, encStreaming, encOut,
                  sessVars, appVars, parseVars, readVars, cmdVars, pairVars >>

EncInit ==
  /\ encKind \in EncKinds
  /\ encInput \in EncInputs
  /\ encPos = 0 /\ encStreaming = FALSE /\ encOut = << >>
  /\ encState = "open"

----------------------------------------------------------------------------
(* The result parser on its own                                            *)

\* The most pieces a reply is made of
MaxPieces == 2

tNoLabelFOUND == <<":", " ", "x", " ", "F", "O", "U", "N", "D">>
tBlankNameFOUND == <<"s", ":", " ", " ", "F", "O", "U", "N", "D">>
tFOUNDy == <<"s", ":", " ", "y", " ", "F", "O", "U", "N", "D">>
tFOUNDx == <<"s", ":", " ", "x", " ", "F", "O", "U", "N", "D">>
tFOUNDthenText == tFOUNDx \o <<" ", "y">>

\* What a daemon may put between two separators: the replies clamd gives
\* and some it does not.
PieceTexts ==
  { << >>, <<"x">>, <<" ">>, <<":">>, wOK, <<"s", ":", " ", "O", "K">>,
    tFOUNDx, tFOUNDy, tBlankNameFOUND, tNoLabelFOUND, tFOUNDthenText,
    <<"x", " ", "E", "R", "R", "O", "R">>, wTIMEDOUT }

\* What ends a piece: nothing, NUL or a newline.
PieceEnds == { << >>, <<NUL>>, <<"\n">> }

Pieces == [text : PieceTexts, end : PieceEnds]

ReplyInputs == UNION {[1..n -> Pieces] : n \in 0..MaxPieces}

\* response.toString("utf8"): the pieces one after the other
TextOf(pieces) ==
  Concat([i \in 1..Len(pieces) |-> pieces[i].text \o pieces[i].end])

NoResult == [kind |-> "none"]

\* this._processResult(response.toString("utf8"), file)
Parser_processResult ==
  /\ parsePc = "start"
  /\ parsePc' = "done"
  /\ parseOut' = ProcessResult(TextOf(parseIn), FileName)
  /\ UNCHANGED << parseIn, sessVars, appVars, encVars, readVars, cmdVars, pairVars >>

ParseInit ==
  /\ parseIn \in ReplyInputs
  /\ parsePc = "start" /\ parseOut = NoResult

\* No parser runs on its own.
ParseOff == parseIn = << >> /\ parsePc = "off" /\ parseOut = NoResult

----------------------------------------------------------------------------
(* The reader scanBuffer makes of a buffer                                 *)

\* "p3": scanBuffer of unnamed/part_003, "clamd": scanBuffer of clamd.ts,
\* "svc": ClamAVService.scanBuffer
ReaderKinds == {"p3", "clamd", "svc"}

\* The longest buffer scanned, and the largest size read is called with
MaxBufferLen == 3
MaxReadSize == 3

Buffers == UNION {[1..n -> {0, 1}] : n \in 0..MaxBufferLen}

\* Buffer.slice(start, end) for 0 <= start <= end: end is clamped to the
\* length
Slice(buffer, start, end) ==
  SubSeq(buffer, start + 1, IF end > Len(buffer) THEN Len(buffer) ELSE end)

\* A read that signals the end of input at once: what P3_read must differ
\* from.
P3_read_endsAtOnce ==
  /\ rdKind = "p3" /\ rdEnds = 0
  /\ rdEnds' = rdEnds + 1
  /\ UNCHANGED << rdKind, rdBuffer, rdSize, rdStart, rdPushed,
                  sessVars, appVars, encVars, parseVars, cmdVars, pairVars >>

\* read(size) of unnamed/part_003 100-108. The stream calls it until the
\* end of input was pushed.
P3_read ==
  /\ rdKind = "p3" /\ rdEnds = 0
  /\ IF rdStart < Len(rdBuffer)
     THEN LET block == Slice(rdBuffer, rdStart, rdStart + rdSize)
          IN  /\ rdPushed' = Append(rdPushed, block)
              /\ rdStart' = rdStart + Len(block)
              /\ rdEnds' = rdEnds
     ELSE /\ rdEnds' = rdEnds + 1
          /\ UNCHANGED << rdStart, rdPushed >>
  /\ UNCHANGED << rdKind, rdBuffer, rdSize, sessVars, appVars, encVars,
                  parseVars, cmdVars, pairVars >>

\* read(size) of clamd.ts 64-68: push(block.length > 0 ? block : null)
Clamd_read ==
  /\ rdKind = "clamd" /\ rdEnds = 0
  /\ LET block == Slice(rdBuffer, rdStart, rdStart + rdSize)
     IN  /\ IF Len(block) > 0
            THEN rdPushed' = Append(rdPushed, block) /\ rdEnds' = rdEnds
            ELSE rdPushed' = rdPushed /\ rdEnds' = rdEnds + 1
         /\ rdStart' = rdStart + Len(block)
  /\ UNCHANGED << rdKind, rdBuffer, rdSize, sessVars, appVars, encVars,
                  parseVars, cmdVars, pairVars >>

\* ClamAVService.scanBuffer 277-282: stream.end(buffer) on a PassThrough
\* writes the buffer as one chunk and ends the stream; the readable side
\* takes no chunk of length 0. There is no read position.
Svc_scanBuffer ==
  /\ rdKind = "svc" /\ rdEnds = 0
  /\ rdPushed' = IF rdBuffer = << >> THEN rdPushed
                 ELSE Append(rdPushed, rdBuffer)
  /\ rdEnds' = rdEnds + 1
  /\ UNCHANGED << rdKind, rdBuffer, rdSize, rdStart, sessVars, appVars,
                  encVars, parseVars, cmdVars, pairVars >>

ReadInit ==
  /\ rdKind \in ReaderKinds
  /\ rdBuffer \in Buffers
  /\ rdSize \in 1..MaxReadSize
  /\ rdStart = 0 /\ rdPushed = << >> /\ rdEnds = 0

\* No reader runs.
ReadOff ==
  /\ rdKind = "off" /\ rdBuffer = << >> /\ rdSize = 1
  /\ rdStart = 0 /\ rdPushed = << >> /\ rdEnds = 0

----------------------------------------------------------------------------
(* ping and version                                                        *)

\* "p3": ping / version / _command of unnamed/part_003,
\* "svc": ClamAVService.ping / version / command
CmdKinds == {"p3", "svc"}

CmdNames == {"ping", "version"}

zPING == BufferFrom(<<"z", "P", "I", "N", "G", NUL>>)
zVERSION == BufferFrom(<<"z", "V", "E", "R", "S", "I", "O", "N", NUL>>)
PONG == BufferFrom(<<"P", "O", "N", "G", NUL>>)

\* The command string ping and version pass to _command / command
CommandOf(name) == IF name = "ping" THEN zPING ELSE zVERSION

\* What the daemon sends, chunk by chunk, if the connection lasts.
CmdScripts ==
  { << >>,
    << PONG >>,
    << BufferFrom(<<"P", "O">>), BufferFrom(<<"N", "G", NUL>>) >>,
    << PONG, BufferFrom(<<"x">>) >>,
    << BufferFrom(<<"P", "O", "N", "G">>) >>,
    << BufferFrom(<<"x">>), PONG >> }

\* A comparison of the reply's first bytes only: what PingResult must
\* differ from.
PingResult_startsWith(res) ==
  Len(res) >= Len(PONG) /\ SubSeq(res, 1, Len(PONG)) = PONG

\* res.equals(Buffer.from('PONG\0'))
PingResult(res) == res = PONG

\* What ping / version make of the Buffer their command resolved with
CmdResult(name, res) ==
  IF name = "ping"
  THEN [kind |-> "boolean", bool |-> PingResult(res), text |-> << >>]
  ELSE [kind |-> "string", bool |-> FALSE, text |-> BufToString(res)]

\* ping / version are called. unnamed/part_003: the test of host and port
\* throws, or _command creates the connection and attaches its listeners.
\* ClamAVService: command awaits _initSocket, which throws in its executor
\* without host and port.
Cmd_call ==
  /\ cmdKind \in CmdKinds
  /\ cmdSock = "none" /\ cmdPromise.state = "pending"
  /\ IF ~ cmdConfigured
     THEN /\ cmdPromise' = Settle(cmdPromise, "rejected",
                                  Err(IF cmdKind = "p3"
                                      THEN "MustProvideHostPort"
                                      ELSE "NoHostPort"))
          /\ UNCHANGED << cmdSock, cmdWired >>
     ELSE /\ cmdSock' = "connecting"
          /\ cmdWired' = (cmdKind = "p3")
          /\ cmdPromise' = cmdPromise
  /\ UNCHANGED << cmdKind, cmdName, cmdConfigured, cmdScript, cmdPos,
                  cmdRemoteEnded, cmdWritten, cmdReplies,
                  sessVars, appVars, encVars, parseVars, readVars, pairVars >>

\* The connection is made: client.write(command). In ClamAVService the
\* await of _initSocket returns and the listeners are attached too.
Cmd_OnConnect ==
  /\ cmdKind \in CmdKinds
  /\ cmdSock = "connecting"
  /\ cmdSock' = "open"
  /\ cmdWired' = TRUE
  /\ cmdWritten' = Append(cmdWritten, CommandOf(cmdName))
  /\ UNCHANGED << cmdKind, cmdName, cmdConfigured, cmdScript, cmdPos,
                  cmdRemoteEnded, cmdReplies, cmdPromise,
                  sessVars, appVars, encVars, parseVars, readVars, pairVars >>

\* The timeout listener of _initSocket (ClamAVService 162-166) stays on
\* the socket: reject, which changes nothing once the connection was made,
\* and client.end(). A socket ended before it connected is given up.
\* (unnamed/part_003 sets the timer with no listener for it.)
Svc_CmdTimeout ==
  /\ cmdKind = "svc"
  /\ cmdSock \in {"connecting", "open"}
  /\ ~ cmdRemoteEnded
  /\ IF cmdSock = "connecting"
     THEN /\ cmdPromise' = Settle(cmdPromise, "rejected", Err("TimedOut"))
          /\ cmdSock' = "destroyed"
     ELSE /\ cmdPromise' = cmdPromise
          /\ cmdSock' = "ended"
  /\ UNCHANGED << cmdKind, cmdName, cmdConfigured, cmdScript, cmdPos,
                  cmdWired, cmdRemoteEnded, cmdWritten, cmdReplies,
                  sessVars, appVars, encVars, parseVars, readVars, pairVars >>

\* on('data'): replies.push(chunk)
Cmd_SocketData ==
  /\ cmdKind \in CmdKinds
  /\ cmdSock \in {"open", "ended"} /\ ~ cmdRemoteEnded
  /\ cmdPos < Len(cmdScript)
  /\ cmdPos' = cmdPos + 1
  /\ cmdReplies' = Append(cmdReplies, cmdScript[cmdPos + 1])
  /\ UNCHANGED << cmdKind, cmdName, cmdConfigured, cmdScript, cmdSock,
                  cmdWired, cmdRemoteEnded, cmdWritten, cmdPromise,
                  sessVars, appVars, encVars, parseVars, readVars, pairVars >>

\* on('end'): resolve(Buffer.concat(replies)); ping / version go on from
\* their await. The daemon ends the connection after what it sends.
Cmd_SocketEnd ==
  /\ cmdKind \in CmdKinds
  /\ cmdSock \in {"open", "ended"} /\ ~ cmdRemoteEnded
  /\ cmdPos = Len(cmdScript)
  /\ cmdRemoteEnded' = TRUE
  /\ cmdSock' = "ended"
  /\ cmdPromise' = Settle(cmdPromise, "resolved",
                          CmdResult(cmdName, Concat(cmdReplies)))
  /\ UNCHANGED << cmdKind, cmdName, cmdConfigured, cmdScript, cmdPos,
                  cmdWired, cmdWritten, cmdReplies,
                  sessVars, appVars, encVars, parseVars, readVars, pairVars >>

\* on('error', reject), or the error listener of _initSocket while
\* ClamAVService connects: the promise is rejected, the runtime destroys
\* the socket.
Cmd_SocketError ==
  /\ cmdKind \in CmdKinds
  /\ cmdSock \in {"connecting", "open", "ended"} /\ ~ cmdRemoteEnded
  /\ cmdSock' = "destroyed"
  /\ cmdPromise' = Settle(cmdPromise, "rejected", Err("SocketError"))
  /\ UNCHANGED << cmdKind, cmdName, cmdConfigured, cmdScript, cmdPos,
                  cmdWired, cmdRemoteEnded, cmdWritten, cmdReplies,
                  sessVars, appVars, encVars, parseVars, readVars, pairVars >>

CmdInit ==
  /\ cmdKind \in CmdKinds
  /\ cmdName \in CmdNames
  /\ cmdConfigured \in BOOLEAN
  /\ cmdScript \in CmdScripts
  /\ cmdPos = 0 /\ cmdSock = "none" /\ cmdWired = FALSE
  /\ cmdRemoteEnded = FALSE
  /\ cmdWritten = << >> /\ cmdReplies = << >>
  /\ cmdPromise = Pending

\* No command runs.
CmdOff ==
  /\ cmdKind = "off" /\ cmdName = "ping" /\ cmdConfigured = FALSE
  /\ cmdScript = << >>
  /\ cmdPos = 0 /\ cmdSock = "none" /\ cmdWired = FALSE
  /\ cmdRemoteEnded = FALSE
  /\ cmdWritten = << >> /\ cmdReplies = << >>
  /\ cmdPromise = Pending

----------------------------------------------------------------------------
(* Two scans at once                                                       *)

\* Two calls of scanStream, each with its own input source, both
\* connected, their listeners attached. finished / readFinished, chunks /
\* replies, the socket and the promise are created by each call
\* (ClamAVService 183, 231; unnamed/part_003 49, 66): scans[i] holds those
\* of the i-th call.
ScanIds == {1, 2}

PairVariants == {"svc", "p3"}

\* The most chunks an input source of the two scans delivers
MaxPairChunks == 1

\* What the daemon sends to each scan: the texts differ from one scan to
\* the other.
PairScripts(i) ==
  IF i = 1
  THEN { << >>, <<BufferFrom(tStreamOK)>>,
         <<BufferFrom(<<"s", ":", " ">>), BufferFrom(<<"O", "K", NUL>>)>> }
  ELSE { << >>, <<BufferFrom(tStreamFOUND)>>, <<BufferFrom(tERROR)>> }

\* A scan connected, nothing delivered yet
ScanStart(left, sent) ==
  [left |-> left, paused |-> FALSE, srcEnded |-> FALSE,
   srcErrored |-> FALSE, finished |-> FALSE, script |-> sent, dpos |-> 0,
   chunks |-> << >>, sockDone |-> FALSE, promise |-> Pending]

ScanFlowing(s) == ~ s.paused /\ ~ s.srcEnded /\ ~ s.srcErrored

\* The handlers of one scan, on what its call holds.

\* stream.on("data") / the pipe: the chunk goes to the transform
Scan_StreamData(s) == [s EXCEPT !.left = s.left - 1]

\* stream.on("end"): finished = true / readFinished = true
Scan_StreamEnd(s) == [s EXCEPT !.srcEnded = TRUE, !.finished = TRUE]

\* stream.on("error"): reject(err)
Scan_StreamError(s) ==
  [s EXCEPT !.srcErrored = TRUE,
            !.promise = Settle(s.promise, "rejected", Err("StreamError"))]

\* socket.on("data"): pause the input, chunks.push(chunk)
Scan_SocketData(s) ==
  [s EXCEPT !.paused = TRUE,
            !.dpos = s.dpos + 1,
            !.chunks = Append(s.chunks, s.script[s.dpos + 1])]

\* socket.on("end")
Scan_SocketEnd(v, s) ==
  [s EXCEPT !.sockDone = TRUE,
            !.promise =
              IF v = "svc" THEN SvcEndOutcome(s.promise, s.finished, s.chunks)
              ELSE IF ~ s.finished
                   THEN Settle(s.promise, "rejected",
                               Aborted(Concat(s.chunks)))
                   ELSE Settle(s.promise, "resolved",
                               [kind |-> "reply",
                                text |-> BufToString(Concat(s.chunks))])]

\* socket.on("error"): reject(err)
Scan_SocketError(s) ==
  [s EXCEPT !.sockDone = TRUE,
            !.promise = Settle(s.promise, "rejected", Err("SocketError"))]

\* An event of the i-th scan is handled: the handler works on what its own
\* call holds.
PairStep(i, after) ==
  /\ prVariant \in PairVariants
  /\ scans' = [scans EXCEPT ![i] = after]
  /\ UNCHANGED << prVariant, sessVars, appVars, encVars, parseVars,
                  readVars, cmdVars >>

Pair_StreamData ==
  \E i \in ScanIds :
    /\ ScanFlowing(scans[i]) /\ scans[i].left > 0
    /\ PairStep(i, Scan_StreamData(scans[i]))

Pair_StreamEnd ==
  \E i \in ScanIds :
    /\ ScanFlowing(scans[i]) /\ scans[i].left = 0
    /\ PairStep(i, Scan_StreamEnd(scans[i]))

Pair_StreamError ==
  \E i \in ScanIds :
    /\ ~ scans[i].srcEnded /\ ~ scans[i].srcErrored
    /\ PairStep(i, Scan_StreamError(scans[i]))

\* A data listener that pushes to one array for all the scans: what
\* Pair_SocketData must differ from.
Pair_SocketData_oneArray ==
  \E i \in ScanIds :
    /\ prVariant \in PairVariants
    /\ ~ scans[i].sockDone /\ scans[i].dpos < Len(scans[i].script)
    /\ scans' =
         [j \in ScanIds |->
            IF j = i THEN Scan_SocketData(scans[i])
            ELSE [scans[j] EXCEPT
                    !.chunks = Append(scans[j].chunks,
                                      scans[i].script[scans[i].dpos + 1])]]
    /\ UNCHANGED << prVariant, sessVars, appVars, encVars, parseVars,
                    readVars, cmdVars >>

Pair_SocketData ==
  \E i \in ScanIds :
    /\ ~ scans[i].sockDone /\ scans[i].dpos < Len(scans[i].script)
    /\ PairStep(i, Scan_SocketData(scans[i]))

Pair_SocketEnd ==
  \E i \in ScanIds :
    /\ ~ scans[i].sockDone
    /\ PairStep(i, Scan_SocketEnd(prVariant, scans[i]))

Pair_SocketError ==
  \E i \in ScanIds :
    /\ ~ scans[i].sockDone
    /\ PairStep(i, Scan_SocketError(scans[i]))

PairInit ==
  /\ prVariant \in PairVariants
  /\ \E left \in [ScanIds -> 0..MaxPairChunks] :
       \E sent \in [ScanIds -> UNION {PairScripts(i) : i \in ScanIds}] :
         /\ \A i \in ScanIds : sent[i] \in PairScripts(i)
         /\ scans = [i \in ScanIds |-> ScanStart(left[i], sent[i])]

\* No pair of scans runs.
PairOff ==
  /\ prVariant = "off"
  /\ scans = [i \in ScanIds |-> ScanStart(0, << >>)]

----------------------------------------------------------------------------
(* The specification of one scan                                           *)

vars ==
  << sessVars, appVars, encVars, parseVars, readVars, cmdVars, pairVars >>

\* No upload hook runs.
AppOff ==
  /\ appVariant = "ifTrue"
  /\ appIn = [host |-> FALSE, port |-> FALSE,
              scan |-> [kind |-> "rejected", text |-> << >>],
              room |-> FALSE, appUser |-> FALSE]
  /\ appPc = "off" /\ appNotified = FALSE /\ appOutcome = "none"

\* No encoder runs on its own.
EncOff ==
  /\ encKind = "off" /\ encInput = << >> /\ encPos = 0
  /\ encStreaming = FALSE /\ encOut = << >> /\ encState = "open"

Init == SessInit /\ AppOff /\ EncOff /\ ParseOff /\ ReadOff /\ CmdOff /\ PairOff

\* What the program does once its events are there
ProgramStep ==
  \/ Svc_scanStream \/ P3_scanStream \/ Clamd_scanStream
  \/ Svc_StreamData \/ Svc_StreamEnd
  \/ P3_StreamData \/ P3_StreamEnd \/ P3_SocketDrain
  \/ Svc_SocketClose

\* What the network, the daemon, the timer and the input source decide
EnvironmentStep ==
  \/ Svc_OnConnect \/ P3_OnConnect \/ Clamd_OnConnect
  \/ Svc_OnConnectError \/ P3_OnConnectError \/ Clamd_OnConnectError
  \/ Svc_OnTimeout \/ P3_Timeout \/ Clamd_Timeout
  \/ Svc_StreamError \/ P3_StreamError
  \/ Svc_SocketData \/ P3_SocketData \/ Clamd_SocketData
  \/ Svc_SocketEnd \/ P3_SocketEnd \/ Clamd_SocketEnd
  \/ Svc_SocketError \/ P3_SocketError \/ Clamd_SocketError

Next == ProgramStep \/ EnvironmentStep

Spec == Init /\ [][Next]_vars

\* The program takes the steps it can take: a handler whose event is there
\* runs. Nothing obliges the network, the daemon, the timer or the input
\* source to act.
FairSpec == Init /\ [][Next]_vars /\ WF_vars(ProgramStep)

----------------------------------------------------------------------------
(* The specification of one upload, and of one encoder                     *)

AppNext == App_IfTrue \/ App_Integration \/ App_TestApp \/ App_TryCatch

\* One upload: no scan session and no encoder of its own run beside it.
AppSpecInit == SessOff /\ AppInit /\ EncOff /\ ParseOff /\ ReadOff /\ CmdOff /\ PairOff

AppSpec == AppSpecInit /\ [][AppNext]_vars

EncNext ==
  \/ ClamTransform_write \/ ClamTransform_end \/ ClamTransform_destroy
  \/ chunkTransform_write \/ chunkTransform_end \/ chunkTransform_destroy

\* One encoder on its own.
EncSpecInit == SessOff /\ AppOff /\ EncInit /\ ParseOff /\ ReadOff /\ CmdOff /\ PairOff

EncSpec == EncSpecInit /\ [][EncNext]_vars

\* One reply parsed.
ParseSpecInit == SessOff /\ AppOff /\ EncOff /\ ParseInit /\ ReadOff /\ CmdOff /\ PairOff

ParseNext == Parser_processResult

ParseSpec == ParseSpecInit /\ [][ParseNext]_vars

\* One reader, read until it ends: the stream calls read whenever it wants
\* data and the end of input was not pushed.
ReadSpecInit == SessOff /\ AppOff /\ EncOff /\ ParseOff /\ ReadInit /\ CmdOff /\ PairOff

ReadNext == P3_read \/ Clamd_read \/ Svc_scanBuffer

ReadSpec == ReadSpecInit /\ [][ReadNext]_vars /\ WF_vars(ReadNext)

\* One ping or version, with what the network, the daemon and the timer do.
CmdSpecInit ==
  SessOff /\ AppOff /\ EncOff /\ ParseOff /\ ReadOff /\ CmdInit /\ PairOff

CmdNext ==
  \/ Cmd_call \/ Cmd_OnConnect \/ Svc_CmdTimeout
  \/ Cmd_SocketData \/ Cmd_SocketEnd \/ Cmd_SocketError

CmdSpec == CmdSpecInit /\ [][CmdNext]_vars

\* Two scans, their events in any order.
PairSpecInit ==
  SessOff /\ AppOff /\ EncOff /\ ParseOff /\ ReadOff /\ CmdOff /\ PairInit

PairNext ==
  \/ Pair_StreamData \/ Pair_StreamEnd \/ Pair_StreamError
  \/ Pair_SocketData \/ Pair_SocketEnd \/ Pair_SocketError

PairSpec == PairSpecInit /\ [][PairNext]_vars

\* An upload hook or a scan session, each from its own start.
HookOrScanInit == Init \/ AppSpecInit

HookOrScanNext == Next \/ AppNext

HookOrScanSpec == HookOrScanInit /\ [][HookOrScanNext]_vars

----------------------------------------------------------------------------
(* What the protocol expects on the wire                                   *)

Terminator == <<0, 0, 0, 0>>

FrameOf(c) == BigEndian4(Length(Len(c))) \o c

RECURSIVE Frames(_)
Frames(cs) ==
  IF cs = << >> THEN << >> ELSE FrameOf(Head(cs)) \o Frames(Tail(cs))

ExpectedWire == zINSTREAM \o Frames(input) \o Terminator

IsPrefix(a, b) == Len(a) <= Len(b) /\ SubSeq(b, 1, Len(a)) = a

IsSuffix(a, b) ==
  Len(a) <= Len(b) /\ SubSeq(b, Len(b) - Len(a) + 1, Len(b)) = a

\* The reply the socket's data events have delivered, and what the parser
\* makes of its text
Delivered == SubSeq(script, 1, dpos)

Parsed == ProcessResult(BufToString(Concat(Delivered)), FileName)

----------------------------------------------------------------------------
(* Claims                                                                  *)

\* C1: when the daemon's socket ends or errors before the input source
\* has reached its end, the scan never resolves with a verdict or reply.
\* (Spec; src/clamd.ts resolves in its end listener whatever was read.)
C1_EarlyEndNeverResolves ==
  (variant \in {"svc", "clamd"} /\ sockFin \in {"endEarly", "errEarly"})
    => promise.state # "resolved"

\* C2: when the daemon's reply reports a virus, executePreFileUpload never
\* returns normally (the claim asks for more: that what it throws is
\* FileUploadNotAllowedException). (AppSpec, the two hooks the claim
\* cites.)
C2_InfectedReplyNeverAllowed ==
  ( /\ appPc = "done"
    /\ appVariant \in {"integration", "tryCatch"}
    /\ appIn.host /\ appIn.port
    /\ appIn.scan.kind = "reply"
    /\ MatchesFOUND(Trim(appIn.scan.text)) )
    => appOutcome # "returned"

\* C3: executePreFileUpload returns normally only if the scan completed
\* and the reply matched the OK grammar; for any other reply and for any
\* failure of the scan it throws. (AppSpec, the hooks that decide with
\* isCleanReply.)
C3_AllowedOnlyWhenClean ==
  ( /\ appPc = "done"
    /\ appVariant \in {"integration", "testApp", "tryCatch"}
    /\ appOutcome = "returned" )
    => (appIn.scan.kind = "reply" /\ MatchesOK(Trim(appIn.scan.text)))

\* C4: by the time the scan promise settles, end or destroy was called on
\* the socket the scan opened.
C4_SettledMeansSocketClosed ==
  (variant \in {"svc", "p3"} /\ promise.state \in {"resolved", "rejected"})
    => sock \in {"none", "ended", "destroyed"}

\* C5: once the idle timer has fired, the scan does not stay pending
\* forever (the claim asks for more: that it rejects with a timeout
\* error). (FairSpec)
C5_TimeoutSettles ==
  (variant \in {"svc", "p3"} /\ timedOut) ~> (promise.state # "pending")

\* C6: an input source the scan paused because a chunk of the daemon
\* arrived is resumed, as long as the session lasts: it is never left
\* paused forever on an open connection. (FairSpec)
C6_PausedSourceResumes ==
  (variant \in {"svc", "p3"} /\ paused /\ ~ srcEnded /\ ~ srcErrored
     /\ sock = "open")
    ~> (~ paused \/ srcErrored \/ sock # "open")

\* C7: whenever scanStream resolves, the terminator frame and every frame
\* before it had been written to the socket.
C7_ResolvedAfterTerminatorWritten ==
  (variant \in {"svc", "p3"} /\ promise.state = "resolved")
    => IsSuffix(Frames(input) \o Terminator, Concat(written))

\* C8: for every input source, the empty one included, the bytes written
\* to the socket are the handshake, then one frame per chunk, then the
\* terminator: always a prefix of that, and all of it once the encoder
\* has ended.
C8_WireIsHandshakeFramesTerminator ==
  variant = "svc" =>
    /\ IsPrefix(Concat(written), ExpectedWire)
    /\ (tState = "ended" => Concat(written) = ExpectedWire)

FramePushed(i) ==
  IF encOut[i] # << >> /\ encOut[i][1] = Chunk(zINSTREAM)
  THEN Tail(encOut[i]) ELSE encOut[i]

\* C10: every chunk of length L > 0 written to the encoder is emitted as
\* the 4-byte big-endian unsigned L followed by the chunk. (EncSpec)
C10_ChunkIsFramed ==
  \A i \in 1..encPos :
    encInput[i].length # Length(0) =>
      FramePushed(i) = << Chunk(BigEndian4(encInput[i].length)), encInput[i] >>

\* C11: a zero-length chunk written to the encoder produces no output (so
\* no 4-byte zero is emitted before the input is exhausted). (EncSpec)
C11_ZeroLengthChunkEmitsNothing ==
  \A i \in 1..encPos :
    encInput[i].length = Length(0) => FramePushed(i) = << >>

\* C12: the terminator is emitted when the input is exhausted and the
\* encoder ended, for every input, the empty one included: once, as the
\* last output; an encoder that threw or was destroyed emits none beyond
\* what its writes pushed. (EncSpec)
C12_OneTerminatorLast ==
  /\ encState = "flushed" =>
       /\ encPos = Len(encInput)
       /\ Len(encOut) = encPos + 1
       /\ encOut[Len(encOut)] = << Chunk(Terminator) >>
  /\ encState # "flushed" => Len(encOut) = encPos

\* An encoder ended on an empty input has emitted its terminator.
C12_Witness ==
  /\ encKind = "ClamTransform" /\ encState = "flushed"
  /\ encInput = << >> /\ encOut = << << Chunk(Terminator) >> >>

\* The bytes the encoder emitted, the handshake set aside
EncWire ==
  LET out == Concat([i \in 1..Len(encOut) |-> Concat(BytesOf(encOut[i]))])
  IN  IF IsPrefix(zINSTREAM, out)
      THEN SubSeq(out, Len(zINSTREAM) + 1, Len(out)) ELSE out

\* The number a 4-byte big-endian prefix stands for (below 2^16 in the
\* model's frames)
PrefixValue(b) == ((b[1] * 256 + b[2]) * 256 + b[3]) * 256 + b[4]

RECURSIVE DecodeFrames(_, _)
\* A clamd-side reading of the wire: length-prefixed frames up to the
\* first frame of length 0; what follows it, or a frame cut short, is rest.
DecodeFrames(wire, payload) ==
  IF Len(wire) < 4
  THEN [payload |-> payload, terminated |-> FALSE, rest |-> wire]
  ELSE LET n == PrefixValue(SubSeq(wire, 1, 4))
       IN  IF n = 0
           THEN [payload |-> payload, terminated |-> TRUE,
                 rest |-> SubSeq(wire, 5, Len(wire))]
           ELSE IF Len(wire) < 4 + n
           THEN [payload |-> payload, terminated |-> FALSE, rest |-> wire]
           ELSE DecodeFrames(SubSeq(wire, 5 + n, Len(wire)),
                             payload \o SubSeq(wire, 5, 4 + n))

\* The bytes written to the encoder, whatever the chunking
EncPayload == Concat([i \in 1..Len(encInput) |-> encInput[i].bytes])

\* C13: once the encoder has ended, reading its output as length-prefixed
\* frames gives back the bytes written to it, whatever the chunking (the
\* claim asks for more: then the terminator and nothing else). Chunks
\* written out in full only. (EncSpec)
C13_RoundTripPayload ==
  ( /\ encState = "flushed"
    /\ \A i \in 1..Len(encInput) : encInput[i] = Chunk(encInput[i].bytes) )
    => DecodeFrames(EncWire, << >>).payload = EncPayload

\* C14: when the socket signals end, the accumulated reply is the chunks
\* its data events delivered since the connection was opened, each once
\* and in arrival order, those that came before the input's end included.
C14_ReplyIsEveryChunkInOrder ==
  (variant \in {"svc", "p3"} /\ remoteEnded) => chunks = Delivered

\* The daemon sent two chunks before the input ended, then ended.
C14_Witness ==
  /\ variant = "svc" /\ remoteEnded /\ ~ srcEnded
  /\ dpos = 2 /\ Len(chunks) = 2

----------------------------------------------------------------------------
(* The reply grammars as the specification words them                      *)

Parsed1 == parsePc = "done"

ReplyText == TextOf(parseIn)

\* t without the one NUL or newline it may end with
WithoutEnd(t) ==
  IF t # << >> /\ t[Len(t)] \in {NUL, "\n", "\r"}
  THEN SubSeq(t, 1, Len(t) - 1) ELSE t

\* "ends with a colon, whitespace, the token OK, optionally followed by a
\* null byte or newline"
OKGrammar(t) ==
  LET b == WithoutEnd(t)
      n == Len(b)
  IN  /\ n >= 4
      /\ b[n - 1] = "O" /\ b[n] = "K"
      /\ \E c \in 1..(n - 3) :
           /\ b[c] = ":"
           /\ \A k \in (c + 1)..(n - 2) : b[k] \in {" ", "\t", "\n", "\r"}

\* A segment "<label>: <name> FOUND" with the label s, and its name
FoundSegments == {tFOUNDx, tFOUNDy, tBlankNameFOUND}

NameIn(seg) == SubSeq(seg, 4, Len(seg) - 6)

\* A reply of one or more such segments, separated by NUL or newline
FoundReply(pieces) ==
  /\ Len(pieces) >= 1
  /\ \A i \in 1..Len(pieces) : pieces[i].text \in FoundSegments
  /\ \A i \in 1..(Len(pieces) - 1) : pieces[i].end # << >>

RECURSIVE NamesFrom(_, _)
\* The names of the segments from the i-th on, each at its first
\* occurrence, the empty ones left out
NamesFrom(pieces, i) ==
  IF i > Len(pieces) THEN << >>
  ELSE LET name == NameIn(pieces[i].text)
       IN  (IF name = << >> \/ \E j \in 1..(i - 1) : NameIn(pieces[j].text) = name
            THEN << >> ELSE << name >>)
           \o NamesFrom(pieces, i + 1)

\* "the daemon's ERROR grammar": text, then the token ERROR, optionally
\* followed by a null byte or newline
ERRORGrammar(t) ==
  LET b == WithoutEnd(t)
      n == Len(b)
  IN  /\ n >= 6
      /\ SubSeq(b, n - 4, n) = <<"E", "R", "R", "O", "R">>
      /\ \A k \in 1..n : b[k] \notin {NUL, "\n", "\r", ":"}

\* C15: the verdict has a non-empty signature list if and only if its
\* status is Infected. (ParseSpec)
C15_SignaturesIffInfected ==
  (Parsed1 /\ parseOut.kind = "result") =>
    ((parseOut.viruses # << >>) <=> (parseOut.isInfected = "true"))

C17_OKRule ==
  Parsed1 =>
    /\ OKGrammar(Trim(ReplyText)) <=>
         (parseOut.kind = "result" /\ parseOut.isInfected = "false")
    /\ OKGrammar(Trim(ReplyText)) => parseOut.viruses = << >>

\* "s: OK" and a NUL was parsed.
C17_Witness ==
  /\ Parsed1
  /\ parseIn = << [text |-> <<"s", ":", " ", "O", "K">>, end |-> <<NUL>>] >>
  /\ parseOut.isInfected = "false"

\* C18: a reply matching the ERROR grammar yields a verdict (of status
\* Error), not a failure. (ParseSpec)
C18_ErrorReplyIsVerdict ==
  (Parsed1 /\ ERRORGrammar(Trim(ReplyText))) => parseOut.kind = "result"

\* C19: an empty reply text never yields a verdict. (ParseSpec)
C19_EmptyReplyIsNoVerdict ==
  (Parsed1 /\ ReplyText = << >>) => parseOut.kind # "result"

\* C20: the flag timeout is set if and only if the trimmed reply text is
\* COMMAND READ TIMED OUT, and then the status is Undetermined and there
\* is no signature. (ParseSpec)
C20_TimeoutRule ==
  Parsed1 =>
    /\ (parseOut.kind = "result" /\ parseOut.timeout)
         <=> (Trim(ReplyText) = wTIMEDOUT)
    /\ (Trim(ReplyText) = wTIMEDOUT) =>
         (parseOut.isInfected = "null" /\ parseOut.viruses = << >>)

\* COMMAND READ TIMED OUT and a newline was parsed.
C20_Witness ==
  /\ Parsed1
  /\ parseIn = << [text |-> wTIMEDOUT, end |-> <<"\n">>] >>
  /\ parseOut.timeout

HasFoundSegment(pieces) ==
  \E i \in 1..Len(pieces) :
    /\ pieces[i].text \in {tFOUNDx, tFOUNDy}
    /\ i > 1 => pieces[i - 1].end # << >>
    /\ i < Len(pieces) => pieces[i].end # << >>

\* C26: a reply with at least one segment of the FOUND grammar never
\* yields a Clean verdict, whatever its other segments. (ParseSpec)
C26_FoundNeverClean ==
  (Parsed1 /\ HasFoundSegment(parseIn)) =>
    ~ (parseOut.kind = "result" /\ parseOut.isInfected = "false")

\* C22: when the daemon's reply matches the OK grammar,
\* executePreFileUpload returns normally and sends no notification.
\* (AppSpec)
C22_CleanFileNotBlocked ==
  ( /\ appPc = "done"
    /\ appIn.host /\ appIn.port
    /\ appIn.scan.kind = "reply"
    /\ OKGrammar(Trim(appIn.scan.text)) )
    => (appOutcome = "returned" /\ ~ appNotified)

\* C27: with the host or the port missing, the scan is never resolved,
\* once called it has failed with an error, no connection is opened and no
\* byte is written; executePreFileUpload ends with the error 'Missing
\* ClamAv connection configuration'. (HookOrScanSpec)
C27_MissingSettingsFail ==
  /\ (~ settings.host \/ ~ settings.port) =>
       /\ sock = "none"
       /\ written = << >>
       /\ promise.state \in {"pending", "rejected", "thrown"}
       /\ variant = "svc" => promise.state # "thrown"
       /\ variant \in {"p3", "clamd"} => promise.state # "rejected"
  /\ (appPc = "done" /\ (~ appIn.host \/ ~ appIn.port)) =>
       (appOutcome = "MissingConfiguration" /\ ~ appNotified)

\* ClamAVService.scanStream was called with a host and no port: the throw
\* of _initSocket was caught and the promise rejected.
C27_Witness ==
  /\ variant = "svc"
  /\ settings = [host |-> TRUE, port |-> FALSE]
  /\ promise.state = "rejected"
  /\ sock = "none"

\* C25: the blocks the reader of scanBuffer pushed are the bytes of the
\* buffer up to the read position, in order; the position never passes
\* the length of the buffer and never decreases; the end of input is
\* signalled at most once, and then every byte was pushed; and the end of
\* input is signalled eventually. (ReadSpec)
C25_ReaderDeliversBuffer ==
  /\ [](rdKind \in ReaderKinds =>
          /\ rdStart <= Len(rdBuffer)
          /\ rdKind \in {"p3", "clamd"} =>
               Concat(rdPushed) = SubSeq(rdBuffer, 1, rdStart)
          /\ \A i \in 1..Len(rdPushed) : rdPushed[i] # << >>
          /\ rdEnds <= 1
          /\ rdEnds = 1 => Concat(rdPushed) = rdBuffer)
  /\ [][rdStart' >= rdStart]_vars
  /\ (rdKind \in ReaderKinds) ~> (rdEnds = 1)

\* A buffer of three bytes was read two bytes at a time to its end.
C25_Witness ==
  /\ rdKind = "p3"
  /\ Len(rdBuffer) = 3 /\ rdSize = 2
  /\ rdPushed = << SubSeq(rdBuffer, 1, 2), SubSeq(rdBuffer, 3, 3) >>
  /\ rdEnds = 1

\* The reply of the daemon, whole
FullReply == Concat(cmdScript)

\* C24: ping and version write their command string and nothing else;
\* they resolve only when the daemon has ended the connection, and are
\* settled once it has; ping resolves true if and only if the whole
\* reply is PONG and a NUL, version resolves with the whole reply as
\* text. (CmdSpec)
C24_AuxiliaryCommands ==
  cmdKind \in CmdKinds =>
    /\ cmdWritten \in {<< >>, << CommandOf(cmdName) >>}
    /\ cmdName = "ping" =>
         Concat(cmdWritten) \in {<< >>, <<122, 80, 73, 78, 71, 0>>}
    /\ cmdName = "version" =>
         Concat(cmdWritten) \in {<< >>, <<122, 86, 69, 82, 83, 73, 79, 78, 0>>}
    /\ cmdPromise.state = "resolved" => cmdRemoteEnded
    /\ (cmdRemoteEnded /\ cmdWired) => cmdPromise.state # "pending"
    /\ (cmdPromise.state = "resolved" /\ cmdName = "ping") =>
         /\ cmdPromise.value.kind = "boolean"
         /\ cmdPromise.value.bool <=> (FullReply = <<80, 79, 78, 71, 0>>)
    /\ (cmdPromise.state = "resolved" /\ cmdName = "version") =>
         /\ cmdPromise.value.kind = "string"
         /\ cmdPromise.value.text = BufToString(FullReply)

\* ping resolved true with a reply that came in two chunks.
C24_Witness ==
  /\ cmdKind \in CmdKinds /\ cmdName = "ping"
  /\ Len(cmdReplies) = 2
  /\ cmdPromise.state = "resolved"
  /\ cmdPromise.value.bool

\* What the socket of the i-th scan has delivered
OwnReply(i) == SubSeq(scans[i].script, 1, scans[i].dpos)

\* The outcome the i-th scan must have, from its own events alone
OwnOutcome(i) ==
  LET p == scans[i].promise
  IN  /\ p.state = "resolved" =>
            /\ scans[i].srcEnded
            /\ p.value =
                 IF prVariant = "svc"
                 THEN ProcessResult(BufToString(Concat(OwnReply(i))),
                                    FileName)
                 ELSE [kind |-> "reply",
                       text |-> BufToString(Concat(OwnReply(i)))]
      /\ (p.state = "rejected" /\ p.value.name = "Aborted") =>
            p.value = Aborted(Concat(OwnReply(i)))
      /\ (p.state = "rejected" /\ p.value.name = "StreamError") =>
            scans[i].srcErrored

\* C23: of two scans running at once, each one's reply is the chunks its
\* own socket delivered, in order, its flag finished is the end of its own
\* input, its outcome is that of its own events, no chunk of one is in
\* the reply of the other, and a step changes the state of one scan
\* only. (PairSpec)
C23_ScansDoNotInterfere ==
  /\ [](prVariant \in PairVariants =>
          \A i \in ScanIds :
            /\ scans[i].chunks = OwnReply(i)
            /\ scans[i].finished = scans[i].srcEnded
            /\ OwnOutcome(i)
            /\ \A j \in ScanIds \ {i} :
                 \A k \in 1..Len(scans[i].chunks) :
                   \A m \in 1..Len(scans[j].script) :
                     scans[i].chunks[k] # scans[j].script[m])
  /\ [][\A i \in ScanIds : \A j \in ScanIds \ {i} :
          scans'[i] = scans[i] \/ scans'[j] = scans[j]]_vars

\* The first scan resolved with its two chunks while the second, its
\* chunk received, was still under way.
C23_Witness ==
  /\ prVariant \in PairVariants
  /\ Len(scans[1].chunks) = 2
  /\ scans[1].promise.state = "resolved"
  /\ Len(scans[2].chunks) = 1
  /\ ~ scans[2].sockDone
  /\ scans[2].promise.state = "pending"

====
